---- MODULE Spec2Model ----
(***************************************************************************)
(* k-means clustering of the rows of a per-base matrix (src/lib/cluster.c). *)
(*                                                                         *)
(* The matrix container (struct perBaseMatrix) holds nrow descriptors      *)
(* (array[i], with a label and a data pointer) and nrow row pointers       *)
(* (matrix[i]).  A data pointer is the index of a row of the buffer buf.   *)
(* Arrays are functions on 0..n-1, as in the C code.                       *)
(*                                                                         *)
(* Doubles are modelled as exact rationals [num, den] (den > 0, lowest     *)
(* terms); NaN is a value of its own.  Rounding and overflow of doubles    *)
(* are not modelled.                                                       *)
(***************************************************************************)
EXTENDS Integers, FiniteSets, Sequences, TLC

VARIABLES
    nrow, ncol, buf, array, matrix,                 \* struct perBaseMatrix
    handle,                                         \* the caller's struct cluster_bed_matrix *
    n, m, k, num_na, cluster_sizes, centroids,      \* struct cluster_bed_matrix
    t, labels, error, iter,                         \* k_means: parameter t and locals
    pc, fault,                                      \* position of the caller; the fault met, if any
    presort                                         \* the descriptor array as handed to the final qsort

vars == <<nrow, ncol, buf, array, matrix, handle, n, m, k, num_na, cluster_sizes,
          centroids, t, labels, error, iter, pc, fault, presort>>

pbmVars == <<nrow, ncol, buf, array, matrix>>
cbmVars == <<n, m, k, num_na, cluster_sizes, centroids>>
kmVars  == <<t, labels, error, iter>>

----------------------------------------------------------------------------
(* Bounds of the model *)

MaxRows == 3        \* pbm->nrow ranges over 1..MaxRows
MaxCols == 2        \* pbm->ncol ranges over 1..MaxCols
MaxCells == 4       \* pbm->nrow * pbm->ncol is at most MaxCells
MaxIter == 3        \* iter counts the passes of the loop up to MaxIter ("MaxIter or more")

NaN == -1                       \* the not-a-number cell value
FiniteVals == {0, 1, 2}         \* the finite cell values
Values == FiniteVals \cup {NaN}
Ks == -1 .. MaxRows             \* the k handed to init_cbm_from_pbm

(* DBL_MAX of <float.h>: larger than every distance, error and difference *)
(* the model can reach.                                                    *)
DBL_MAX == 1000000

----------------------------------------------------------------------------
(* Exact arithmetic on doubles *)

Abs(x) == IF x < 0 THEN -x ELSE x

RECURSIVE GCD(_, _)
GCD(a, b) == IF b = 0 THEN a ELSE GCD(b, a % b)

Rat(a, b) ==
    LET g == GCD(Abs(a), b) IN
    IF g = 0 THEN [num |-> 0, den |-> 1] ELSE [num |-> a \div g, den |-> b \div g]

RatAdd(x, y) == Rat(x.num * y.den + y.num * x.den, x.den * y.den)
RatSub(x, y) == Rat(x.num * y.den - y.num * x.den, x.den * y.den)
RatLess(x, y) == x.num * y.den < y.num * x.den
fabs(x) == [num |-> Abs(x.num), den |-> x.den]
pow2(x) == Rat(x.num * x.num, x.den * x.den)

isnan(v) == v = NaN

Zero == Rat(0, 1)
DblMax == Rat(DBL_MAX, 1)

(* the tolerances handed to do_kmeans: all > 0 *)
Tolerances == {Rat(1, 1000), Rat(1, 1), DblMax}

----------------------------------------------------------------------------
(* qsort and the comparators *)

perBaseWigJustLabelCmp(a, b) == a.label - b.label

(* bigs.h: the comparator of the final sort, keyed on the label *)
perBaseWigLabelCmp(a, b) == a.label - b.label

(* qsort(base, nmemb, ..., cmp): some arrangement of base that is in       *)
(* non-decreasing cmp order; the order of elements that compare equal is   *)
(* unspecified.                                                            *)
QsortJustLabel(base, nmemb) ==
    { b \in { [i \in 0..(nmemb-1) |-> base[p[i]]] : p \in Permutations(0..(nmemb-1)) } :
        \A i, j \in 0..(nmemb-1) : i < j => perBaseWigJustLabelCmp(b[i], b[j]) <= 0 }

QsortLabel(base, nmemb) ==
    { b \in { [i \in 0..(nmemb-1) |-> base[p[i]]] : p \in Permutations(0..(nmemb-1)) } :
        \A i, j \in 0..(nmemb-1) : i < j => perBaseWigLabelCmp(b[i], b[j]) <= 0 }

----------------------------------------------------------------------------
(* clear_na_rows *)

RowHasNaN(mx, i) == \E j \in 0..(ncol-1) : isnan(buf[mx[i]][j])

MarkNaRows(arr, mx) ==
    [i \in 0..(nrow-1) |-> IF RowHasNaN(mx, i) THEN [arr[i] EXCEPT !.label = -1] ELSE arr[i]]

(* the scan without its break: every NaN cell is counted *)
CountNaCells(mx) ==
    Cardinality({c \in (0..(nrow-1)) \X (0..(ncol-1)) : isnan(buf[mx[c[1]]][c[2]])})

CountNaRows(mx) == Cardinality({i \in 0..(nrow-1) : RowHasNaN(mx, i)})

(* the row pointers left as they were *)
StaleMatrix(arr) == matrix

RebuildMatrix(arr) == [i \in 0..(nrow-1) |-> arr[i].data]

----------------------------------------------------------------------------
(* The perBaseMatrix handed to init_cbm_from_pbm, before the call: the     *)
(* descriptors are in the order of the rows, matrix[i] is the data of      *)
(* array[i], and the labels are those of freshly allocated descriptors, 0. *)
Init ==
    /\ nrow \in 1..MaxRows
    /\ ncol \in 1..MaxCols
    /\ nrow * ncol <= MaxCells
    /\ buf \in [0..(nrow-1) -> [0..(ncol-1) -> Values]]
    /\ array = [i \in 0..(nrow-1) |-> [data |-> i, label |-> 0]]
    /\ matrix = [i \in 0..(nrow-1) |-> i]
    /\ handle = "NULL"
    /\ n = 0 /\ m = 0 /\ k = 0 /\ num_na = 0
    /\ cluster_sizes = << >> /\ centroids = << >>
    /\ t = Zero /\ labels = << >> /\ error = DblMax /\ iter = 0
    /\ pc = "start" /\ fault = "none"
    /\ presort = << >>

(* init_cbm_from_pbm(pbm, k), clear_na_rows included *)
InitCbmFromPbm ==
    /\ pc = "start"
    /\ \E kk \in Ks :
         /\ k' = kk
         /\ n' = nrow
         /\ m' = ncol
         /\ num_na' = CountNaRows(matrix)
         /\ array' \in QsortJustLabel(MarkNaRows(array, matrix), nrow)
         /\ matrix' = RebuildMatrix(array')
    /\ handle' = "live"
    /\ pc' = "ready"
    /\ UNCHANGED <<nrow, ncol, buf, cluster_sizes, centroids, kmVars, fault, presort>>

----------------------------------------------------------------------------
(* k_means *)

Active == num_na .. (n - 1)

(* the seeding without its stride *)
SeedRowNoStride(i) == num_na

(* lines 161-166: the row seeding centroid i *)
SeedRow(i) == num_na + i * ((n - num_na) \div k)

SeedCentroids ==
    [i \in 0..(k-1) |-> [j \in 0..(m-1) |-> Rat(buf[matrix[SeedRow(i)]][j], 1)]]

(* lines 186-188: squared euclidean distance of row h to centroid i *)
RECURSIVE DistanceFrom(_, _, _)
DistanceFrom(h, i, j) ==
    IF j < 0 THEN Zero
    ELSE RatAdd(pow2(RatSub(Rat(buf[matrix[h]][j], 1), centroids[i][j])),
                DistanceFrom(h, i, j - 1))

Distance(h, i) == DistanceFrom(h, i, m - 1)

(* lines 183-194: the scan over the centroids from i on, with the running *)
(* label and minimum; the label changes on a strictly smaller distance    *)
RECURSIVE Closest(_, _, _)
Closest(h, i, best) ==
    IF i >= k THEN best
    ELSE LET distance == Distance(h, i) IN
         IF RatLess(distance, best.min_distance)
         THEN Closest(h, i + 1, [label |-> i, min_distance |-> distance])
         ELSE Closest(h, i + 1, best)

(* the sizes of the pass before, not cleared *)
StaleSizes == cluster_sizes

(* lines 172-179: what a pass starts from *)
ClearedSizes == [i \in 0..(k-1) |-> 0]

ClearedPass ==
    [labels |-> labels,
     cluster_sizes |-> ClearedSizes,
     c1 |-> [i \in 0..(k-1) |-> [j \in 0..(m-1) |-> 0]],
     error |-> Zero]

(* lines 181-200: the body of the loop over the rows, for row h *)
RowStep(h, st) ==
    LET best == Closest(h, 0, [label |-> st.labels[h], min_distance |-> DblMax]) IN
    [labels |-> [st.labels EXCEPT ![h] = best.label],
     cluster_sizes |-> [st.cluster_sizes EXCEPT ![best.label] = @ + 1],
     c1 |-> [st.c1 EXCEPT ![best.label] = [j \in 0..(m-1) |-> @[j] + buf[matrix[h]][j]]],
     error |-> RatAdd(st.error, best.min_distance)]

(* line 180: the loop over the rows from h on *)
RECURSIVE RowsFrom(_, _)
RowsFrom(h, st) == IF h >= n THEN st ELSE RowsFrom(h + 1, RowStep(h, st))

Pass == RowsFrom(num_na, ClearedPass)

(* lines 202-208 *)
UpdateCentroids(st) ==
    [i \in 0..(k-1) |-> [j \in 0..(m-1) |->
        IF st.cluster_sizes[i] # 0 THEN Rat(st.c1[i][j], st.cluster_sizes[i])
        ELSE Rat(st.c1[i][j], 1)]]

(* the exit test on the sum of the two errors *)
LoopAgainOnSum(err, old_error) == RatLess(t, fabs(RatAdd(err, old_error)))

(* line 209 *)
LoopAgain(err, old_error) == RatLess(t, fabs(RatSub(err, old_error)))

(* The memory of a process that has crashed, and the memory free_cbm has *)
(* released, hold nothing the program can use.                             *)
Released ==
    /\ array' = << >> /\ matrix' = << >> /\ buf' = << >>
    /\ cluster_sizes' = << >> /\ centroids' = << >> /\ labels' = << >>
    /\ presort' = << >>
    /\ t' = Zero /\ error' = DblMax /\ iter' = 0
    /\ UNCHANGED <<nrow, ncol, n, m, k, num_na>>

(* do_kmeans(cbm, t) up to the loop of k_means: allocation and seeding *)
DoKmeansBegin ==
    /\ pc \in {"ready", "done"}
    /\ \/ /\ k <= 0                       \* AllocArray(cbm->cluster_sizes, k): nothing to allocate, the run aborts
          /\ pc' = "crashed"
          /\ fault' = "bad_alloc"
          /\ Released
       \/ /\ k >= 1 /\ n - num_na >= 1
          /\ labels' = [h \in 0..(n-1) |-> 0]
          /\ cluster_sizes' = [i \in 0..(k-1) |-> 0]
          /\ centroids' = SeedCentroids
          /\ \E tt \in Tolerances : t' = tt
          /\ error' = DblMax
          /\ iter' = 0
          /\ pc' = "loop"
          /\ presort' = << >>
          /\ UNCHANGED <<pbmVars, n, m, k, num_na, fault>>
       \/ /\ k >= 1 /\ n - num_na = 0     \* matrix[n] is read: out of bounds
          /\ fault' = "out_of_bounds"
          /\ \/ /\ pc' = "crashed"
                /\ Released
             \/ /\ pc' = "loop"
                /\ labels' = [h \in 0..(n-1) |-> 0]
                /\ cluster_sizes' = [i \in 0..(k-1) |-> 0]
                /\ \E g \in [0..(m-1) -> FiniteVals] :
                     centroids' = [i \in 0..(k-1) |-> [j \in 0..(m-1) |-> Rat(g[j], 1)]]
                /\ \E tt \in Tolerances : t' = tt
                /\ error' = DblMax
                /\ iter' = 0
                /\ presort' = << >>
                /\ UNCHANGED <<pbmVars, n, m, k, num_na>>
    /\ UNCHANGED handle

(* one pass of the do-while loop of k_means, exit test included *)
KMeansIterate ==
    /\ pc = "loop"
    /\ LET st == Pass
       IN /\ labels' = st.labels
          /\ cluster_sizes' = st.cluster_sizes
          /\ centroids' = UpdateCentroids(st)
          /\ error' = st.error
          /\ pc' = IF LoopAgain(st.error, error) THEN "loop" ELSE "labelled"
    /\ iter' = IF iter < MaxIter THEN iter + 1 ELSE iter
    /\ UNCHANGED <<pbmVars, handle, n, m, k, num_na, t, fault, presort>>

----------------------------------------------------------------------------
(* do_kmeans after k_means has returned *)

(* the copy over all rows, the excluded ones included *)
CopyAllLabels(arr) == [i \in 0..(nrow-1) |-> [arr[i] EXCEPT !.label = labels[i]]]

(* lines 220-221 *)
CopyLabels(arr) ==
    [i \in 0..(nrow-1) |-> IF i >= num_na THEN [arr[i] EXCEPT !.label = labels[i]] ELSE arr[i]]

(* the final sort left out *)
NoSort(arr) == {arr}

(* the final sort with its comparison reversed *)
SortByLabelDescending(arr) ==
    { b \in { [i \in 0..(nrow-1) |-> arr[p[i]]] : p \in Permutations(0..(nrow-1)) } :
        \A i, j \in 0..(nrow-1) : i < j => perBaseWigLabelCmp(b[j], b[i]) <= 0 }

(* line 222 *)
SortByLabel(arr) == QsortLabel(arr, nrow)

DoKmeansEnd ==
    /\ pc = "labelled"
    /\ presort' = CopyLabels(array)
    /\ array' \in SortByLabel(CopyLabels(array))
    /\ matrix' = RebuildMatrix(array')
    /\ labels' = << >>                  \* freeMem(labels)
    /\ t' = Zero /\ error' = DblMax /\ iter' = 0
    /\ pc' = "done"
    /\ UNCHANGED <<nrow, ncol, buf, handle, cbmVars, fault>>

----------------------------------------------------------------------------
(* free_cbm(&handle) *)
FreeCbm ==
    /\ pc \in {"start", "ready", "done", "freed"}
    /\ \/ /\ handle = "NULL"              \* cbm->pbm is read through a null pointer
          /\ fault' = "null_dereference"
          /\ pc' = "crashed"
          /\ UNCHANGED handle
       \/ /\ handle = "live"              \* freez(&cbm) clears the local copy only
          /\ handle' = "dangling"
          /\ pc' = "freed"
          /\ UNCHANGED fault
       \/ /\ handle = "dangling"          \* cbm->pbm is read from freed memory, and freed again
          /\ fault' = "use_after_free"
          /\ pc' \in {"crashed", "freed"}
          /\ UNCHANGED handle
    /\ Released

Next ==
    \/ InitCbmFromPbm
    \/ DoKmeansBegin
    \/ KMeansIterate
    \/ DoKmeansEnd
    \/ FreeCbm

Spec == Init /\ [][Next]_vars

----------------------------------------------------------------------------
(* Vocabulary of the properties *)

Rows == 0..(nrow-1)

(* the state exists and no call is under way *)
Returned == pc \in {"ready", "done"}

ValidK == 1 <= k /\ k <= n - num_na

(* the row a descriptor points to holds a NaN *)
Excluded(d) == \E j \in 0..(ncol-1) : buf[d.data][j] = NaN

(* the index of the descriptor with the data pointer of d *)
Pos(arr, d) == CHOOSE i \in Rows : arr[i].data = d.data

SortedByLabel(arr) == \A i, j \in Rows : i < j => arr[i].label <= arr[j].label

ActiveRowsDistinct ==
    \A i, j \in Rows :
        (i < j /\ ~Excluded(array[i]) /\ ~Excluded(array[j])) => buf[array[i].data] # buf[array[j].data]

----------------------------------------------------------------------------
(* C1: after do_kmeans has returned on a state with 1 <= k <= n - num_na,  *)
(* every row without a NaN carries a label in [0, k) and every row with a  *)
(* NaN carries the label -1.                                               *)
C1_LabelsInRange ==
    (pc = "done" /\ ValidK) =>
        \A i \in Rows :
            IF Excluded(array[i]) THEN array[i].label = -1
            ELSE array[i].label \in 0..(k-1)

C1_Witness ==
    /\ pc = "done" /\ ValidK /\ k >= 2
    /\ \E i \in Rows : Excluded(array[i])
    /\ \E i \in Rows : array[i].label = k - 1

(* C2: after do_kmeans has returned the descriptor array is in             *)
(* non-decreasing label order, the rows labelled -1 first.                 *)
C2_SortedByLabel == pc = "done" => SortedByLabel(array)

C2_Witness ==
    /\ pc = "done"
    /\ \E i, j \in Rows : array[i].label = -1 /\ array[j].label = 1
    /\ ~SortedByLabel(presort)

(* C3: after init_cbm_from_pbm and after every do_kmeans the rows with a   *)
(* NaN are exactly the rows at the positions [0, num_na) of both arrays,   *)
(* each labelled -1, no row further on is labelled -1, and num_na is the   *)
(* number of rows with a NaN (0 for a matrix without NaN).                 *)
C3_ExcludedRowsFirst ==
    Returned =>
        /\ \A i \in Rows :
              /\ (i < num_na) <=> Excluded(array[i])
              /\ (i < num_na) <=> (\E j \in 0..(ncol-1) : buf[matrix[i]][j] = NaN)
              /\ (i < num_na) <=> (array[i].label = -1)
        /\ num_na = Cardinality({r \in Rows : \E j \in 0..(ncol-1) : buf[r][j] = NaN})

C3_Witness ==
    /\ pc = "done"
    /\ num_na >= 1 /\ num_na < n
    /\ \E i \in Rows : array[i].label > 0

(* C4: init_cbm_from_pbm hands out no state for k <= 0 or k > n - num_na,  *)
(* and no pass of k_means runs with such a k.                              *)
C4_BadKRejected == (handle = "live" \/ pc \in {"loop", "labelled"}) => ValidK

(* C5: free_cbm on a null or already destroyed handle does nothing and     *)
(* touches no null or freed memory, and after any call the handle is NULL. *)
C5_FreeIdempotent ==
    /\ fault \notin {"null_dereference", "use_after_free"}
    /\ pc = "freed" => handle = "NULL"

(* C6: for 1 <= k <= n - num_na and t > 0 the loop of k_means ends after   *)
(* finitely many passes, empty clusters or not, and not before one whole   *)
(* pass has run: the error is never negative, and every pass that stays in *)
(* the loop lowers it by more than t, so that a first pass with error e is *)
(* followed by fewer than e / t + 1 passes.                                *)
C6_LoopTerminates ==
    /\ [](pc = "loop" => RatLess(Zero, t))
    /\ [](pc = "labelled" => iter >= 1)
    /\ []((pc \in {"loop", "labelled"} /\ ValidK) => ~RatLess(error, Zero))
    /\ [][(pc = "loop" /\ pc' = "loop" /\ ValidK) => RatLess(RatAdd(error', t), error)]_vars

C6_Witness ==
    /\ pc = "loop" /\ ValidK /\ iter >= 2
    /\ \E i \in 0..(k-1) : cluster_sizes[i] = 0

(* C7 as stated: with k = n - num_na every cluster ends with one row, no   *)
(* two active rows share a label and the error of the first pass is zero,  *)
(* identical active rows or not.                                           *)
C7_Singletons ==
    /\ (pc = "done" /\ ValidK /\ k = n - num_na) =>
          /\ \A i \in 0..(k-1) : cluster_sizes[i] = 1
          /\ \A i, j \in Rows : (i < j /\ num_na <= i) => array[i].label # array[j].label
    /\ (pc \in {"loop", "labelled"} /\ ValidK /\ k = n - num_na /\ iter = 1) => error = Zero

(* C7 as amended: with k = n - num_na the error of the first pass is zero; *)
(* when the active rows are pairwise different, every cluster ends with    *)
(* one row and no two active rows share a label.                           *)
C7_SingletonsWhenDistinct ==
    /\ (pc = "done" /\ ValidK /\ k = n - num_na /\ ActiveRowsDistinct) =>
          /\ \A i \in 0..(k-1) : cluster_sizes[i] = 1
          /\ \A i, j \in Rows : (i < j /\ num_na <= i) => array[i].label # array[j].label
    /\ (pc \in {"loop", "labelled"} /\ ValidK /\ k = n - num_na /\ iter = 1) => error = Zero

C7_Witness ==
    /\ pc = "done" /\ ValidK /\ k = n - num_na /\ k >= 3 /\ ActiveRowsDistinct
    /\ \A i \in 0..(k-1) : cluster_sizes[i] = 1

C9_ArraysAligned ==
    /\ [](pc \in {"start", "ready", "loop", "labelled", "done"} =>
            /\ \A i \in Rows : matrix[i] = array[i].data
            /\ {matrix[i] : i \in Rows} = Rows)
    /\ [][pc' \in {"loop", "labelled"} => (array' = array /\ matrix' = matrix)]_vars

C9_Witness ==
    /\ pc = "done"
    /\ \E i \in Rows : matrix[i] # i
    /\ \A i \in Rows : matrix[i] = array[i].data
    /\ presort # array

(* C10: after do_kmeans has returned on a state with 1 <= k <= n - num_na, *)
(* cluster_sizes[i] is the number of rows labelled i, for every cluster i, *)
(* and the sizes add up to n - num_na.                                     *)
RECURSIVE SumSizes(_)
SumSizes(i) == IF i >= k THEN 0 ELSE cluster_sizes[i] + SumSizes(i + 1)

C10_SizesMatchLabels ==
    (pc = "done" /\ ValidK) =>
        /\ \A i \in 0..(k-1) : cluster_sizes[i] = Cardinality({r \in Rows : array[r].label = i})
        /\ SumSizes(0) = n - num_na

C10_Witness ==
    /\ pc = "done" /\ ValidK /\ k >= 2 /\ num_na >= 1
    /\ \E i \in 0..(k-1) : cluster_sizes[i] = 0
    /\ \E i \in 0..(k-1) : cluster_sizes[i] >= 2
====
